---- MODULE Spec2Model ----
(***************************************************************************)
(* A model of the pychain.std contract library: the fungible ledger        *)
(* (base/Token.py), the non-fungible ledger (base/NFT.py) and the mixins   *)
(* that attach to them (mixins/Ownable.py, Mintable.py, Burnable.py,       *)
(* Pausable.py, ReentrancyGuard.py).  Calls run one at a time, on one      *)
(* thread; a call made from inside a running body is a nested call.        *)
(*                                                                         *)
(* Every public operation is one action.  A call that raises is a step     *)
(* too: it records the exception in `last` and keeps whatever the code     *)
(* had already written to its dictionaries before the raise.               *)
(* A Python dictionary that the code indexes (d[k]) is a function with a   *)
(* finite domain, so that a missing key (KeyError) differs from a key that *)
(* holds a value.  A dictionary whose every read is d.get(k, 0) is a total *)
(* function that is 0 where the dictionary has no key: Token.balances and  *)
(* the inner dictionaries of Token.allowances; NFT.operator_approvals,     *)
(* read only through is_approved_for_all, is False where it has no key.    *)
(***************************************************************************)
EXTENDS Integers, Sequences, FiniteSets, TLC

VARIABLES
    total_supply,        \* Token.total_supply
    balances,            \* Token.balances            : address -> int, 0 where no key
    allowances,          \* Token.allowances          : dict owner -> (spender -> int)
    owners,              \* NFT.owners                : dict token_id -> address
    nft_balances,        \* NFT.balances              : dict address -> int
    token_approvals,     \* NFT.token_approvals       : dict token_id -> address
    operator_approvals,  \* NFT.operator_approvals    : (owner, operator) -> bool, False where no key
    owner,               \* Ownable.owner
    log,                 \* the host's event log (self.event), oldest first
    last,                \* the most recent call: operation, outcome, caller
    granted,             \* history: dict (owner, spender) -> amount of the latest approve
    spent,               \* history: dict (owner, spender) -> positive amounts spent since
    paused,              \* Pausable.paused
    status,              \* ReentrancyGuard._status
    stack,               \* the guarded operations whose body is executing, outermost first
    trip,                \* history: the round trip in progress and the values before it
    probe                \* history: one ledger call, the state it ran in and its outcome

tokenVars   == <<total_supply, balances, allowances>>
nftVars     == <<owners, nft_balances, token_approvals, operator_approvals>>
historyVars == <<granted, spent>>
guardVars   == <<status, stack>>
\* What the ledgers and Ownable never write.
mixinVars   == <<paused, status, stack, trip, probe>>
vars == <<total_supply, balances, allowances, owners, nft_balances,
          token_approvals, operator_approvals, owner, log, last, granted, spent,
          paused, status, stack, trip, probe>>

----------------------------------------------------------------------------
(* Bounds of the model *)

\* A call that would make the event log longer than this is not taken.
MaxLog == 2
\* A call that would write a fungible balance, allowance or supply outside
\* -MaxVal..MaxVal is not taken.
MaxVal == 1
\* The body of a guarded operation makes at most this many nested calls.
MaxNested == 2

----------------------------------------------------------------------------
(* Addresses, callers and arguments *)

Zero == "0x0000000000000000000000000000000000000000"

\* msg_sender() is the authenticated caller the host resolves: never Zero.
Users == {"A", "B"}
Addr == Users \cup {Zero}
\* The non-fungible scenarios need an owner, a delegate and a third party.
NFTUsers == {"A", "B", "C"}
NFTAddr == NFTUsers \cup {Zero}
\* get_approved returns "" for a token without an approved delegate.
None == ""
\* Amounts are Python ints: negative, zero and positive ones.
Amounts == {-1, 0, 1}
TokenIds == {1, 2}

OK == "ok"
KeyError == "KeyError"

\* ReentrancyGuard._NOT_ENTERED and ReentrancyGuard._ENTERED
NOT_ENTERED == 1
ENTERED == 2

----------------------------------------------------------------------------
(* Python dictionaries *)

EmptyDict == [k \in {} |-> 0]
Get(d, k, default) == IF k \in DOMAIN d THEN d[k] ELSE default
Put(d, k, v) == [x \in (DOMAIN d) \cup {k} |-> IF x = k THEN v ELSE d[x]]
Del(d, k) == [x \in (DOMAIN d) \ {k} |-> d[x]]

RECURSIVE SumOver(_, _)
SumOver(d, keys) ==
    IF keys = {} THEN 0
    ELSE LET k == CHOOSE x \in keys : TRUE IN d[k] + SumOver(d, keys \ {k})

\* sum(d.values())
SumValues(d) == SumOver(d, DOMAIN d)

----------------------------------------------------------------------------
(* The host: event log and call outcome *)

\* What `last` keeps of a call: a call that raised is its operation and exception,
\* a call that returned is its operation and caller.
Call(op, sender, args, res) ==
    IF res = OK
    THEN [op |-> op, sender |-> sender, res |-> res]
    ELSE [op |-> op, res |-> res]
\* A call to the access-control mixin keeps its caller in both cases.
CallBy(op, sender, res) == [op |-> op, sender |-> sender, res |-> res]

\* A call that raises before it has written anything.
Raise(op, sender, args, msg) ==
    /\ last' = Call(op, sender, args, msg)
    /\ UNCHANGED <<tokenVars, nftVars, owner, log, historyVars>>


----------------------------------------------------------------------------
(* base/Token.py *)

\* self.allowances[sender] = {}
NoAllowance == [s \in Users |-> 0]

\* Token.balance_of
balance_of(account) == balances[account]

\* Token.allowance
allowance(holder, spender) ==
    IF holder \notin DOMAIN allowances THEN 0
    ELSE allowances[holder][spender]

\* Mutant of MoveBalance: the credit is computed from the balance read before the
\* debit was written, which loses the debit when a = b.
MoveBalance_StaleCredit(a, b, amount) ==
    [[balances EXCEPT ![a] = balances[a] - amount] EXCEPT ![b] = balances[b] + amount]

\* self.balances[a] = ... - amount ; self.balances[b] = self.balances.get(b, 0) + amount
MoveBalance(a, b, amount) ==
    LET debited == [balances EXCEPT ![a] = balances[a] - amount]
    IN  [debited EXCEPT ![b] = debited[b] + amount]

\* self.allowances[holder][spender] = value   (holder is a key of allowances)
SetAllowance(holder, spender, value) ==
    [allowances EXCEPT ![holder][spender] = value]

\* The positive part of an amount, as counted by the spending history.
Positive(amount) == IF amount > 0 THEN amount ELSE 0

\* Counted only for a pair the owner has approved.
RecordSpend(holder, spender, amount) ==
    IF <<holder, spender>> \in DOMAIN spent
    THEN [spent EXCEPT ![<<holder, spender>>] = @ + Positive(amount)]
    ELSE spent

\* Mutant of Token_transfer: the transfer calls when_not_paused first.
Token_transfer_WhenNotPaused(sender, to, amount) ==
    LET args == <<to, amount>>
        sender_balance == balances[sender]
    IN  IF paused
        THEN Raise("transfer", sender, args, "Pausable: paused")
        ELSE IF to = Zero
        THEN Raise("transfer", sender, args, "Token: transfer to zero address")
        ELSE IF amount <= 0
        THEN Raise("transfer", sender, args, "Token: amount must be positive")
        ELSE IF sender_balance < amount
        THEN Raise("transfer", sender, args, "Token: insufficient balance")
        ELSE /\ balances' = MoveBalance(sender, to, amount)
             /\ log' = Append(log, <<"Transfer", sender, to, amount>>)
             /\ last' = Call("transfer", sender, args, OK)
             /\ UNCHANGED <<total_supply, allowances, nftVars, owner, historyVars>>

\* Token.transfer
Token_transfer(sender, to, amount) ==
    LET args == <<to, amount>>
        sender_balance == balances[sender]
    IN  IF to = Zero
        THEN Raise("transfer", sender, args, "Token: transfer to zero address")
        ELSE IF amount <= 0
        THEN Raise("transfer", sender, args, "Token: amount must be positive")
        ELSE IF sender_balance < amount
        THEN Raise("transfer", sender, args, "Token: insufficient balance")
        ELSE /\ balances' = MoveBalance(sender, to, amount)
             /\ log' = Append(log, <<"Transfer", sender, to, amount>>)
             /\ last' = Call("transfer", sender, args, OK)
             /\ UNCHANGED <<total_supply, allowances, nftVars, owner, historyVars>>

\* Mutant of Approved: the amount is added to the previous allowance.
Approved_Added(entry, spender, amount) == [entry EXCEPT ![spender] = @ + amount]

\* self.allowances[sender][spender] = amount
Approved(entry, spender, amount) == [entry EXCEPT ![spender] = amount]

\* Token.approve
Token_approve(sender, spender, amount) ==
    LET args == <<spender, amount>>
        entry == IF sender \in DOMAIN allowances THEN allowances[sender] ELSE NoAllowance
    IN  IF spender = Zero
        THEN Raise("approve", sender, args, "Token: approve to zero address")
        ELSE /\ allowances' = Put(allowances, sender, Approved(entry, spender, amount))
             /\ log' = Append(log, <<"Approval", sender, spender, amount>>)
             /\ last' = Call("approve", sender, args, OK)
             /\ granted' = Put(granted, <<sender, spender>>, amount)
             /\ spent' = Put(spent, <<sender, spender>>, 0)
             /\ UNCHANGED <<total_supply, balances, nftVars, owner>>

\* Token.transfer_from
Token_transfer_from(sender, from_addr, to, amount) ==
    LET args == <<from_addr, to, amount>>
        current_allowance == allowance(from_addr, sender)
        from_balance == balances[from_addr]
    IN  IF to = Zero
        THEN Raise("transfer_from", sender, args, "Token: transfer to zero address")
        ELSE IF current_allowance < amount
        THEN Raise("transfer_from", sender, args, "Token: insufficient allowance")
        ELSE IF from_balance < amount
        THEN Raise("transfer_from", sender, args, "Token: insufficient balance")
        ELSE /\ balances' = MoveBalance(from_addr, to, amount)
             /\ IF from_addr \notin DOMAIN allowances
                THEN \* self.allowances[from_addr][sender] = ... raises KeyError,
                     \* after both balances have been written
                     /\ last' = Call("transfer_from", sender, args, KeyError)
                     /\ UNCHANGED <<total_supply, allowances, nftVars, owner, log,
                                    historyVars>>
                ELSE /\ allowances' = SetAllowance(from_addr, sender,
                                                   current_allowance - amount)
                     /\ log' = Append(log, <<"Transfer", from_addr, to, amount>>)
                     /\ last' = Call("transfer_from", sender, args, OK)
                     /\ spent' = RecordSpend(from_addr, sender, amount)
                     /\ UNCHANGED <<total_supply, nftVars, owner, granted>>

\* Token._mint, called for operation op by sender
Token_mint(op, sender, args, account, amount) ==
    IF account = Zero
    THEN Raise(op, sender, args, "Token: mint to zero address")
    ELSE IF amount <= 0
    THEN Raise(op, sender, args, "Token: mint amount must be positive")
    ELSE /\ total_supply' = total_supply + amount
         /\ balances' = [balances EXCEPT ![account] = balances[account] + amount]
         /\ log' = Append(log, <<"Transfer", Zero, account, amount>>)
         /\ last' = Call(op, sender, args, OK)
         /\ UNCHANGED <<allowances, nftVars, owner, historyVars>>

\* Mutant of SupplyAfterBurn: the supply is left as it is.
SupplyAfterBurn_Kept(amount) == total_supply

\* self.total_supply -= amount
SupplyAfterBurn(amount) == total_supply - amount

\* Token._burn, called for operation op by sender: writes balances, total_supply,
\* the log and the outcome; the caller says what happens to allowances.
Token_burn(op, sender, args, account, amount) ==
    LET account_balance == balances[account]
    IN  IF account_balance < amount
        THEN /\ last' = Call(op, sender, args, "Token: burn amount exceeds balance")
             /\ UNCHANGED <<total_supply, balances, log>>
        ELSE /\ balances' = [balances EXCEPT ![account] = account_balance - amount]
             /\ total_supply' = SupplyAfterBurn(amount)
             /\ log' = Append(log, <<"Transfer", account, Zero, amount>>)
             /\ last' = Call(op, sender, args, OK)

----------------------------------------------------------------------------
(* mixins/Mintable.py and mixins/Burnable.py on a Token *)

\* Mintable.mint: it does not read msg_sender
Mintable_mint(to, amount) ==
    Token_mint("mint", Zero, <<to, amount>>, to, amount)

\* Mintable.mint called by sender, in a contract where the caller matters
Mintable_mint_by(sender, to, amount) ==
    Token_mint("mint", sender, <<to, amount>>, to, amount)

\* Burnable.burn, Token branch
Burnable_burn(sender, amount) ==
    /\ Token_burn("burn", sender, <<amount>>, sender, amount)
    /\ UNCHANGED <<allowances, nftVars, owner, historyVars>>

\* Burnable.burn_from, Token branch
Burnable_burn_from(sender, account, amount) ==
    LET args == <<account, amount>>
        current_allowance == allowance(account, sender)
    IN  IF current_allowance < amount
        THEN Raise("burn_from", sender, args, "Burnable: burn amount exceeds allowance")
        ELSE IF account \notin DOMAIN allowances
        THEN \* self.allowances[account][sender] = ... raises KeyError
             Raise("burn_from", sender, args, KeyError)
        ELSE \* the allowance is written first, then _burn runs and may raise
             /\ allowances' = SetAllowance(account, sender, current_allowance - amount)
             /\ Token_burn("burn_from", sender, args, account, amount)
             /\ spent' = IF last'.res = OK
                         THEN RecordSpend(account, sender, amount)
                         ELSE spent
             /\ UNCHANGED <<nftVars, owner, granted>>

----------------------------------------------------------------------------
(* base/NFT.py *)

\* NFT.balance_of, for a non-zero owner
nft_balance_of(holder) == Get(nft_balances, holder, 0)

\* NFT.get_approved, for a token that exists
get_approved(token_id) == Get(token_approvals, token_id, None)

\* Mutant of is_approved_for_all: the delegate of one of the holder's tokens counts
\* as an operator of the holder.
is_approved_for_all_OrDelegate(holder, operator) ==
    \/ operator_approvals[<<holder, operator>>]
    \/ \E t \in DOMAIN token_approvals :
          owners[t] = holder /\ token_approvals[t] = operator

\* NFT.is_approved_for_all
is_approved_for_all(holder, operator) == operator_approvals[<<holder, operator>>]

\* Mutant of is_approved_or_owner: a delegate approved for any token passes.
is_approved_or_owner_AnyToken(spender, token_id) ==
    IF token_id \notin DOMAIN owners THEN FALSE
    ELSE \/ spender = owners[token_id]
         \/ \E t \in DOMAIN token_approvals : token_approvals[t] = spender
         \/ is_approved_for_all(owners[token_id], spender)

\* NFT._is_approved_or_owner
is_approved_or_owner(spender, token_id) ==
    IF token_id \notin DOMAIN owners THEN FALSE
    ELSE \/ spender = owners[token_id]
         \/ get_approved(token_id) = spender
         \/ is_approved_for_all(owners[token_id], spender)

\* Mutant of ClearApproval: the approval slot survives.
ClearApproval_Kept(token_id) == token_approvals

\* if token_id in self.token_approvals: del self.token_approvals[token_id]
ClearApproval(token_id) == Del(token_approvals, token_id)

\* Mutant of MoveCount: the credit is computed from the count read before the
\* debit was written, which loses the debit when from_addr = to.
MoveCount_StaleCredit(from_addr, to) ==
    Put(Put(nft_balances, from_addr, nft_balances[from_addr] - 1),
        to, Get(nft_balances, to, 0) + 1)

\* self.balances[from_addr] -= 1 ; self.balances[to] = self.balances.get(to, 0) + 1
MoveCount(from_addr, to) ==
    LET debited == Put(nft_balances, from_addr, nft_balances[from_addr] - 1)
    IN  Put(debited, to, Get(debited, to, 0) + 1)

\* NFT.transfer_from with the recipient test moved ahead of the authorization test
NFT_transfer_from_RecipientFirst(sender, from_addr, to, token_id) ==
    LET args == <<from_addr, to, token_id>>
    IN  IF to = Zero
        THEN Raise("transfer_from", sender, args, "NFT: transfer to zero address")
        ELSE IF ~is_approved_or_owner(sender, token_id)
        THEN Raise("transfer_from", sender, args,
                   "NFT: transfer caller is not owner nor approved")
        ELSE IF owners[token_id] # from_addr
        THEN Raise("transfer_from", sender, args, "NFT: transfer from incorrect owner")
        ELSE /\ token_approvals' = ClearApproval(token_id)
             /\ nft_balances' = MoveCount(from_addr, to)
             /\ owners' = Put(owners, token_id, to)
             /\ log' = Append(log, <<"Transfer", from_addr, to, token_id>>)
             /\ last' = Call("transfer_from", sender, args, OK)
             /\ UNCHANGED <<tokenVars, operator_approvals, owner, historyVars>>

\* NFT.transfer_from
NFT_transfer_from(sender, from_addr, to, token_id) ==
    LET args == <<from_addr, to, token_id>>
        cleared == ClearApproval(token_id)
    IN  IF ~is_approved_or_owner(sender, token_id)
        THEN Raise("transfer_from", sender, args,
                   "NFT: transfer caller is not owner nor approved")
        ELSE IF to = Zero
        THEN Raise("transfer_from", sender, args, "NFT: transfer to zero address")
        ELSE IF owners[token_id] # from_addr
        THEN Raise("transfer_from", sender, args, "NFT: transfer from incorrect owner")
        ELSE IF from_addr \notin DOMAIN nft_balances
        THEN \* self.balances[from_addr] -= 1 raises KeyError, after the approval
             \* has been cleared
             /\ token_approvals' = cleared
             /\ last' = Call("transfer_from", sender, args, KeyError)
             /\ UNCHANGED <<tokenVars, owners, nft_balances, operator_approvals,
                            owner, log, historyVars>>
        ELSE /\ token_approvals' = cleared
             /\ nft_balances' = MoveCount(from_addr, to)
             /\ owners' = Put(owners, token_id, to)
             /\ log' = Append(log, <<"Transfer", from_addr, to, token_id>>)
             /\ last' = Call("transfer_from", sender, args, OK)
             /\ UNCHANGED <<tokenVars, operator_approvals, owner, historyVars>>

\* NFT.approve
NFT_approve(sender, to, token_id) ==
    LET args == <<to, token_id>>
    IN  IF token_id \notin DOMAIN owners
        THEN Raise("approve", sender, args, "NFT: owner query for nonexistent token")
        ELSE IF to = owners[token_id]
        THEN Raise("approve", sender, args, "NFT: approval to current owner")
        ELSE IF sender # owners[token_id]
                /\ ~is_approved_for_all(owners[token_id], sender)
        THEN Raise("approve", sender, args,
                   "NFT: approve caller is not owner nor approved for all")
        ELSE /\ token_approvals' = Put(token_approvals, token_id, to)
             /\ log' = Append(log, <<"Approval", owners[token_id], to, token_id>>)
             /\ last' = Call("approve", sender, args, OK)
             /\ UNCHANGED <<tokenVars, owners, nft_balances, operator_approvals,
                            owner, historyVars>>

\* NFT.set_approval_for_all
NFT_set_approval_for_all(sender, operator, approved) ==
    LET args == <<operator, approved>>
    IN  IF operator = sender
        THEN Raise("set_approval_for_all", sender, args, "NFT: approve to caller")
        ELSE /\ operator_approvals' =
                    [operator_approvals EXCEPT ![<<sender, operator>>] = approved]
             /\ log' = Append(log, <<"ApprovalForAll", sender, operator, approved>>)
             /\ last' = Call("set_approval_for_all", sender, args, OK)
             /\ UNCHANGED <<tokenVars, owners, nft_balances, token_approvals,
                            owner, historyVars>>

\* NFT._mint, called for operation op by sender
NFT_mint(op, sender, args, to, token_id) ==
    IF to = Zero
    THEN Raise(op, sender, args, "NFT: mint to zero address")
    ELSE IF token_id \in DOMAIN owners
    THEN Raise(op, sender, args, "NFT: token already minted")
    ELSE /\ nft_balances' = Put(nft_balances, to, Get(nft_balances, to, 0) + 1)
         /\ owners' = Put(owners, token_id, to)
         /\ log' = Append(log, <<"Transfer", Zero, to, token_id>>)
         /\ last' = Call(op, sender, args, OK)
         /\ UNCHANGED <<tokenVars, token_approvals, operator_approvals, owner,
                        historyVars>>

\* Mutant of NFT_burn: the approval of the burned token is left in place.
NFT_burn_KeepsApproval(op, sender, args, token_id) ==
    IF token_id \notin DOMAIN owners
    THEN Raise(op, sender, args, "NFT: burn of nonexistent token")
    ELSE LET holder == owners[token_id]
         IN  /\ nft_balances' = Put(nft_balances, holder, nft_balances[holder] - 1)
             /\ owners' = Del(owners, token_id)
             /\ log' = Append(log, <<"Transfer", holder, Zero, token_id>>)
             /\ last' = Call(op, sender, args, OK)
             /\ UNCHANGED <<tokenVars, token_approvals, operator_approvals, owner,
                            historyVars>>

\* NFT._burn, called for operation op by sender
NFT_burn(op, sender, args, token_id) ==
    IF token_id \notin DOMAIN owners
    THEN Raise(op, sender, args, "NFT: burn of nonexistent token")
    ELSE LET holder == owners[token_id]
         IN  /\ token_approvals' = Del(token_approvals, token_id)
             /\ nft_balances' = Put(nft_balances, holder, nft_balances[holder] - 1)
             /\ owners' = Del(owners, token_id)
             /\ log' = Append(log, <<"Transfer", holder, Zero, token_id>>)
             /\ last' = Call(op, sender, args, OK)
             /\ UNCHANGED <<tokenVars, operator_approvals, owner, historyVars>>

----------------------------------------------------------------------------
(* mixins/Mintable.py and mixins/Burnable.py on an NFT *)

\* Mintable.mint on an NFT: the amount is the token id
Mintable_mint_nft(to, token_id) ==
    NFT_mint("mint", Zero, <<to, token_id>>, to, token_id)

\* Burnable.burn, NFT branch
Burnable_burn_nft(sender, token_id) ==
    IF token_id \notin DOMAIN owners
    THEN Raise("burn", sender, <<token_id>>, "NFT: owner query for nonexistent token")
    ELSE IF owners[token_id] # sender
    THEN Raise("burn", sender, <<token_id>>, "Burnable: caller is not token owner")
    ELSE NFT_burn("burn", sender, <<token_id>>, token_id)

\* Burnable.burn_from, NFT branch: the account argument is never read
Burnable_burn_from_nft(sender, token_id) ==
    IF ~is_approved_or_owner(sender, token_id)
    THEN Raise("burn_from", sender, <<token_id>>,
               "Burnable: caller is not owner nor approved")
    ELSE NFT_burn("burn_from", sender, <<token_id>>, token_id)

----------------------------------------------------------------------------
(* mixins/Ownable.py *)

\* Mutant of NotOwner: the caller is compared with the deployer, the first owner
\* on the log, instead of the current owner.
NotOwner_Deployer(sender) == sender # log[1][3]

\* Mutant of NotOwner: the check is skipped when the contract has no owner.
NotOwner_UnlessUnowned(sender) == owner # Zero /\ sender # owner

\* Ownable.only_owner, as the guard inside another operation: the raise condition
NotOwner(sender) == sender # owner

\* Ownable.only_owner, called on its own
Ownable_only_owner(sender) ==
    /\ last' = CallBy("only_owner", sender,
                      IF NotOwner(sender) THEN "Ownable: caller is not the owner" ELSE OK)
    /\ UNCHANGED <<tokenVars, nftVars, owner, log, historyVars>>

\* Ownable.transfer_ownership
Ownable_transfer_ownership(sender, new_owner) ==
    IF NotOwner(sender)
    THEN /\ last' = CallBy("transfer_ownership", sender, "Ownable: caller is not the owner")
         /\ UNCHANGED <<tokenVars, nftVars, owner, log, historyVars>>
    ELSE IF new_owner = Zero
    THEN /\ last' = CallBy("transfer_ownership", sender, "Ownable: new owner is zero address")
         /\ UNCHANGED <<tokenVars, nftVars, owner, log, historyVars>>
    ELSE /\ owner' = new_owner
         /\ log' = Append(log, <<"OwnershipTransferred", owner, new_owner>>)
         /\ last' = CallBy("transfer_ownership", sender, OK)
         /\ UNCHANGED <<tokenVars, nftVars, historyVars>>

\* Ownable.renounce_ownership
Ownable_renounce_ownership(sender) ==
    IF NotOwner(sender)
    THEN /\ last' = CallBy("renounce_ownership", sender, "Ownable: caller is not the owner")
         /\ UNCHANGED <<tokenVars, nftVars, owner, log, historyVars>>
    ELSE /\ owner' = Zero
         /\ log' = Append(log, <<"OwnershipTransferred", owner, Zero>>)
         /\ last' = CallBy("renounce_ownership", sender, OK)
         /\ UNCHANGED <<tokenVars, nftVars, historyVars>>

----------------------------------------------------------------------------
(* mixins/Pausable.py *)

ContractPaused == "Pausable: paused"
ContractNotPaused == "Pausable: not paused"

PausableFrame ==
    UNCHANGED <<tokenVars, nftVars, owner, historyVars, guardVars, trip, probe>>

\* Mutant of when_not_paused: the guard never raises.
when_not_paused_Never == FALSE

\* Pausable.when_not_paused: the raise condition
when_not_paused == paused

\* Pausable.when_paused: the raise condition
when_paused == ~paused

\* Pausable.pause
Pausable_pause(sender) ==
    /\ IF when_not_paused
       THEN /\ last' = CallBy("pause", sender, ContractPaused)
            /\ UNCHANGED <<paused, log>>
       ELSE /\ paused' = TRUE
            /\ log' = Append(log, <<"Paused", sender>>)
            /\ last' = CallBy("pause", sender, OK)
    /\ PausableFrame

\* Pausable.unpause
Pausable_unpause(sender) ==
    /\ IF when_paused
       THEN /\ last' = CallBy("unpause", sender, ContractNotPaused)
            /\ UNCHANGED <<paused, log>>
       ELSE /\ paused' = FALSE
            /\ log' = Append(log, <<"Unpaused", sender>>)
            /\ last' = CallBy("unpause", sender, OK)
    /\ PausableFrame

----------------------------------------------------------------------------
(* mixins/ReentrancyGuard.py *)

\* The operations the docstrings guard.
GuardedOps == {"withdraw", "my_function"}

ReentrantCall == "ReentrancyGuard: reentrant call"
Entered == "entered"
BodyRaised == "body raised"

\* What `last` keeps of a step of a guarded operation: nested is the number of
\* nested calls its body (or the body it was called from) has made so far.
GuardCall(op, sender, res, nested) ==
    [op |-> op, sender |-> sender, res |-> res, nested |-> nested]

\* The body that starts executing: no nested call made yet.
Frame(op, sender, style) ==
    [op |-> op, sender |-> sender, style |-> style, nested |-> 0]

Top == stack[Len(stack)]
Pop == SubSeq(stack, 1, Len(stack) - 1)

\* Mutant of StatusAfterReject: the rejected call releases the guard.
StatusAfterReject_Released == NOT_ENTERED

\* raise Exception("ReentrancyGuard: reentrant call") writes nothing
StatusAfterReject == status

\* if self._status == _ENTERED: raise.  The exception reaches the body the call was
\* made from, if any, which goes on to return or to raise.
Reject(op, sender) ==
    /\ status' = StatusAfterReject
    /\ IF stack = <<>>
       THEN /\ stack' = stack
            /\ last' = GuardCall(op, sender, ReentrantCall, 0)
       ELSE /\ Top.nested < MaxNested
            /\ stack' = [stack EXCEPT ![Len(stack)].nested = @ + 1]
            /\ last' = GuardCall(op, sender, ReentrantCall, Top.nested + 1)

\* self._status = _ENTERED, and the body starts.  A call made while a body is
\* executing is a nested call from that body and counts as one.
Admit(op, sender, style) ==
    /\ stack # <<>> => Top.nested < MaxNested
    /\ status' = ENTERED
    /\ stack' = Append(IF stack = <<>> THEN stack
                       ELSE [stack EXCEPT ![Len(stack)].nested = @ + 1],
                       Frame(op, sender, style))
    /\ last' = GuardCall(op, sender, Entered, 0)

GuardFrame ==
    UNCHANGED <<tokenVars, nftVars, owner, log, historyVars, paused, trip, probe>>

\* nonreentrant_decorator.wrapper up to the call of func
wrapper(op, sender) ==
    /\ IF status = ENTERED THEN Reject(op, sender)
       ELSE Admit(op, sender, "decorator")
    /\ GuardFrame

\* Mutant of StatusAfterBody: without the finally clause, a body that raises
\* leaves the status as it is.
StatusAfterBody_NoFinally(outcome) ==
    IF outcome = OK THEN NOT_ENTERED ELSE status

\* finally: self._status = ReentrancyGuard._NOT_ENTERED
StatusAfterBody(outcome) == NOT_ENTERED

\* nonreentrant_decorator.wrapper from the return or raise of func on
wrapper_exit(outcome) ==
    /\ stack # <<>>
    /\ Top.style = "decorator"
    /\ status' = StatusAfterBody(outcome)
    /\ stack' = Pop
    /\ last' = GuardCall(Top.op, Top.sender, outcome, Top.nested)
    /\ GuardFrame

\* ReentrancyGuard.nonreentrant, called at the start of a protected function
nonreentrant(op, sender) ==
    /\ IF status = ENTERED THEN Reject(op, sender)
       ELSE Admit(op, sender, "method")
    /\ GuardFrame

\* The protected function returns: its last statement is
\* ReentrancyGuard._reset_reentrancy_guard
reset_reentrancy_guard ==
    /\ stack # <<>>
    /\ Top.style = "method"
    /\ status' = NOT_ENTERED
    /\ stack' = Pop
    /\ last' = GuardCall(Top.op, Top.sender, OK, Top.nested)
    /\ GuardFrame

\* The body of the protected function raises: the exception leaves the function
\* before its last statement, so _reset_reentrancy_guard does not run.
body_raises ==
    /\ stack # <<>>
    /\ Top.style = "method"
    /\ status' = status
    /\ stack' = Pop
    /\ last' = GuardCall(Top.op, Top.sender, BodyRaised, Top.nested)
    /\ GuardFrame

----------------------------------------------------------------------------
(* The fungible contract: class MyToken(Mintable, Burnable, Token) *)

InitToken ==
    /\ total_supply = 0
    /\ balances = [a \in Addr |-> 0]
    /\ allowances = EmptyDict

InitNFT ==
    /\ owners = EmptyDict
    /\ nft_balances = EmptyDict
    /\ token_approvals = EmptyDict
    /\ operator_approvals = [p \in NFTUsers \X NFTAddr |-> FALSE]

InitHistory ==
    /\ granted = EmptyDict
    /\ spent = EmptyDict

\* No round trip has begun.
NoTrip == [phase |-> 0]

\* No call has been recorded.
NoProbe == [taken |-> FALSE]

\* Pausable.__init_mixin__ and ReentrancyGuard.__init_mixin__
InitMixins ==
    /\ paused = FALSE
    /\ status = NOT_ENTERED
    /\ stack = <<>>
    /\ trip = NoTrip
    /\ probe = NoProbe

TokenInit ==
    /\ InitToken
    /\ InitNFT
    /\ InitHistory
    /\ InitMixins
    /\ owner = Zero
    /\ log = <<>>
    /\ last = Call("deploy", Zero, <<>>, OK)

InRange(n) == n \in (0 - MaxVal)..MaxVal

\* The part of the state space the model explores: a call that would leave it is
\* not taken.
TokenBounded ==
    /\ Len(log) <= MaxLog
    /\ InRange(total_supply)
    /\ \A a \in Addr : InRange(balances[a])
    /\ \A h \in DOMAIN allowances : \A s \in Users : InRange(allowances[h][s])

\* Every operation of the contract, called by any caller with any arguments.
TokenNext ==
    \/ \E sender \in Users, to \in Addr, amount \in Amounts :
          Token_transfer(sender, to, amount) /\ TokenBounded' /\ UNCHANGED mixinVars
    \/ \E sender \in Users, spender \in Addr, amount \in Amounts :
          Token_approve(sender, spender, amount) /\ TokenBounded' /\ UNCHANGED mixinVars
    \/ \E sender \in Users, from_addr \in Addr, to \in Addr, amount \in Amounts :
          Token_transfer_from(sender, from_addr, to, amount) /\ TokenBounded' /\ UNCHANGED mixinVars
    \/ \E to \in Addr, amount \in Amounts :
          Mintable_mint(to, amount) /\ TokenBounded' /\ UNCHANGED mixinVars
    \/ \E sender \in Users, amount \in Amounts :
          Burnable_burn(sender, amount) /\ TokenBounded' /\ UNCHANGED mixinVars
    \/ \E sender \in Users, account \in Addr, amount \in Amounts :
          Burnable_burn_from(sender, account, amount) /\ TokenBounded' /\ UNCHANGED mixinVars

SpecToken == TokenInit /\ [][TokenNext]_vars

----------------------------------------------------------------------------
(* Delegated spending: the fungible contract from the moment an owner has  *)
(* approved a spender for N, and the operations that draw on allowances.   *)

AllowanceInit ==
    \E N \in Amounts :
       /\ total_supply = 0
       /\ balances = [a \in Addr |-> 0]
       /\ allowances = Put(EmptyDict, "A", [NoAllowance EXCEPT !["B"] = N])
       /\ InitNFT
       /\ InitMixins
       /\ owner = Zero
       /\ log = << <<"Approval", "A", "B", N>> >>
       /\ last = Call("approve", "A", <<"B", N>>, OK)
       /\ granted = Put(EmptyDict, <<"A", "B">>, N)
       /\ spent = Put(EmptyDict, <<"A", "B">>, 0)

AllowanceBounded ==
    /\ Len(log) <= MaxLog + 1
    /\ InRange(total_supply)
    /\ \A a \in Addr : InRange(balances[a])
    /\ \A h \in DOMAIN allowances : \A s \in Users : InRange(allowances[h][s])

AllowanceNext ==
    \/ \E sender \in Users, spender \in Addr, amount \in Amounts :
          Token_approve(sender, spender, amount) /\ AllowanceBounded' /\ UNCHANGED mixinVars
    \/ \E sender \in Users, from_addr \in Addr, to \in Addr, amount \in Amounts :
          Token_transfer_from(sender, from_addr, to, amount) /\ AllowanceBounded' /\ UNCHANGED mixinVars
    \/ \E sender \in Users, account \in Addr, amount \in Amounts :
          Burnable_burn_from(sender, account, amount) /\ AllowanceBounded' /\ UNCHANGED mixinVars

SpecAllowance == AllowanceInit /\ [][AllowanceNext]_vars

----------------------------------------------------------------------------
(* The non-fungible contract: class MyNFT(Mintable, Burnable, NFT) *)

NFTInit ==
    /\ InitToken
    /\ InitNFT
    /\ InitHistory
    /\ InitMixins
    /\ owner = Zero
    /\ log = <<>>
    /\ last = Call("deploy", Zero, <<>>, OK)

NFTBounded == Len(log) <= MaxLog + 1

NFTNext ==
    \/ \E sender \in NFTUsers, from_addr \in NFTAddr, to \in NFTAddr, token_id \in TokenIds :
          NFT_transfer_from(sender, from_addr, to, token_id) /\ NFTBounded' /\ UNCHANGED mixinVars
    \/ \E sender \in NFTUsers, to \in NFTAddr, token_id \in TokenIds :
          NFT_approve(sender, to, token_id) /\ NFTBounded' /\ UNCHANGED mixinVars
    \/ \E sender \in NFTUsers, operator \in NFTAddr, approved \in BOOLEAN :
          NFT_set_approval_for_all(sender, operator, approved) /\ NFTBounded' /\ UNCHANGED mixinVars
    \/ \E to \in NFTAddr, token_id \in TokenIds :
          Mintable_mint_nft(to, token_id) /\ NFTBounded' /\ UNCHANGED mixinVars
    \/ \E sender \in NFTUsers, token_id \in TokenIds :
          Burnable_burn_nft(sender, token_id) /\ NFTBounded' /\ UNCHANGED mixinVars
    \/ \E sender \in NFTUsers, token_id \in TokenIds :
          Burnable_burn_from_nft(sender, token_id) /\ NFTBounded' /\ UNCHANGED mixinVars

SpecNFT == NFTInit /\ [][NFTNext]_vars

----------------------------------------------------------------------------
(* Delegated tokens: the non-fungible contract from the moment token 1 has *)
(* been minted to A and A has approved B for it.                           *)

DelegatedInit ==
    /\ InitToken
    /\ InitHistory
    /\ InitMixins
    /\ owners = Put(EmptyDict, 1, "A")
    /\ nft_balances = Put(EmptyDict, "A", 1)
    /\ token_approvals = Put(EmptyDict, 1, "B")
    /\ operator_approvals = [p \in NFTUsers \X NFTAddr |-> FALSE]
    /\ owner = Zero
    /\ log = << <<"Transfer", Zero, "A", 1>>, <<"Approval", "A", "B", 1>> >>
    /\ last = Call("approve", "A", <<"B", 1>>, OK)

DelegatedBounded == Len(log) <= MaxLog + 2

DelegatedNext ==
    \/ \E sender \in NFTUsers, from_addr \in NFTAddr, to \in NFTAddr, token_id \in TokenIds :
          NFT_transfer_from(sender, from_addr, to, token_id) /\ DelegatedBounded' /\ UNCHANGED mixinVars
    \/ \E sender \in NFTUsers, to \in NFTAddr, token_id \in TokenIds :
          NFT_approve(sender, to, token_id) /\ DelegatedBounded' /\ UNCHANGED mixinVars
    \/ \E sender \in NFTUsers, operator \in NFTAddr, approved \in BOOLEAN :
          NFT_set_approval_for_all(sender, operator, approved) /\ DelegatedBounded' /\ UNCHANGED mixinVars
    \/ \E to \in NFTAddr, token_id \in TokenIds :
          Mintable_mint_nft(to, token_id) /\ DelegatedBounded' /\ UNCHANGED mixinVars
    \/ \E sender \in NFTUsers, token_id \in TokenIds :
          Burnable_burn_nft(sender, token_id) /\ DelegatedBounded' /\ UNCHANGED mixinVars
    \/ \E sender \in NFTUsers, token_id \in TokenIds :
          Burnable_burn_from_nft(sender, token_id) /\ DelegatedBounded' /\ UNCHANGED mixinVars

SpecDelegated == DelegatedInit /\ [][DelegatedNext]_vars

----------------------------------------------------------------------------
(* A contract with the Ownable mixin, deployed by any caller *)

OwnableInit ==
    /\ InitToken
    /\ InitNFT
    /\ InitHistory
    /\ InitMixins
    /\ \E deployer \in NFTUsers :
          /\ owner = deployer
          /\ log = << <<"OwnershipTransferred", Zero, deployer>> >>
          /\ last = CallBy("deploy", deployer, OK)

OwnableBounded == Len(log) <= MaxLog + 2

OwnableNext ==
    \/ \E sender \in NFTUsers :
          Ownable_only_owner(sender) /\ OwnableBounded' /\ UNCHANGED mixinVars
    \/ \E sender \in NFTUsers, new_owner \in NFTAddr :
          Ownable_transfer_ownership(sender, new_owner) /\ OwnableBounded' /\ UNCHANGED mixinVars
    \/ \E sender \in NFTUsers :
          Ownable_renounce_ownership(sender) /\ OwnableBounded' /\ UNCHANGED mixinVars

SpecOwnable == OwnableInit /\ [][OwnableNext]_vars

----------------------------------------------------------------------------
(* class MyContract(Pausable, Ownable, BaseContract), deployed by any caller *)

PausableInit == OwnableInit

PausableBounded == Len(log) <= MaxLog + 2

PausableNext ==
    \/ \E sender \in NFTUsers :
          Pausable_pause(sender) /\ PausableBounded'
    \/ \E sender \in NFTUsers :
          Pausable_unpause(sender) /\ PausableBounded'
    \/ \E sender \in NFTUsers, new_owner \in NFTAddr :
          /\ Ownable_transfer_ownership(sender, new_owner)
          /\ PausableBounded' /\ UNCHANGED mixinVars
    \/ \E sender \in NFTUsers :
          /\ Ownable_renounce_ownership(sender)
          /\ PausableBounded' /\ UNCHANGED mixinVars

SpecPausable == PausableInit /\ [][PausableNext]_vars

----------------------------------------------------------------------------
(* class MyToken(Mintable, Ownable, Token), deployed by any caller *)

OwnedTokenInit ==
    /\ InitToken
    /\ InitNFT
    /\ InitHistory
    /\ InitMixins
    /\ \E deployer \in Users :
          /\ owner = deployer
          /\ log = << <<"OwnershipTransferred", Zero, deployer>> >>
          /\ last = CallBy("deploy", deployer, OK)

OwnedTokenBounded ==
    /\ Len(log) <= MaxLog + 2
    /\ InRange(total_supply)
    /\ \A a \in Addr : InRange(balances[a])

OwnedTokenNext ==
    \/ \E sender \in Users, to \in Addr, amount \in Amounts :
          /\ Mintable_mint_by(sender, to, amount)
          /\ OwnedTokenBounded' /\ UNCHANGED mixinVars
    \/ \E sender \in Users, to \in Addr, amount \in Amounts :
          /\ Token_transfer(sender, to, amount)
          /\ OwnedTokenBounded' /\ UNCHANGED mixinVars
    \/ \E sender \in Users, new_owner \in Addr :
          /\ Ownable_transfer_ownership(sender, new_owner)
          /\ OwnedTokenBounded' /\ UNCHANGED mixinVars
    \/ \E sender \in Users :
          /\ Ownable_renounce_ownership(sender)
          /\ OwnedTokenBounded' /\ UNCHANGED mixinVars

SpecOwnedToken == OwnedTokenInit /\ [][OwnedTokenNext]_vars

----------------------------------------------------------------------------
(* class MyToken(Mintable, Burnable, Pausable, Ownable, Token), deployed by *)
(* A: the ledger operations are inherited as they are, none of them calls   *)
(* when_not_paused.  A run makes some calls, then one ledger call that      *)
(* probe keeps (its arguments, the ledger and the pause flag it ran with,   *)
(* and what it gave), then the calls that bring the ledger back to where    *)
(* the kept call found it; pause and unpause are called at any time.        *)

PausableTokenInit ==
    /\ InitToken
    /\ InitNFT
    /\ InitHistory
    /\ InitMixins
    /\ owner = "A"
    /\ log = << <<"OwnershipTransferred", Zero, "A">> >>
    /\ last = CallBy("deploy", "A", OK)

\* The deployment and three more events: the kept call, one before it or one that
\* undoes it, and one pause or unpause.
PausableTokenBounded ==
    /\ Len(log) <= MaxLog + 2
    /\ InRange(total_supply)
    /\ \A a \in Addr : InRange(balances[a])
    /\ \A h \in DOMAIN allowances : \A s \in Users : InRange(allowances[h][s])

\* The calls of the ledger operations: who calls, and with which arguments.
LedgerCalls ==
    [op : {"transfer", "approve"}, sender : Users, to : Addr, amount : Amounts]
      \cup [op : {"transfer_from"}, sender : Users, from_addr : Addr, to : Addr,
            amount : Amounts]
      \cup [op : {"mint"}, to : Addr, amount : Amounts]
      \cup [op : {"burn"}, sender : Users, amount : Amounts]

\* The ledger operation a call runs.
LedgerCall(c) ==
    CASE c.op = "transfer"      -> Token_transfer(c.sender, c.to, c.amount)
      [] c.op = "approve"       -> Token_approve(c.sender, c.to, c.amount)
      [] c.op = "transfer_from" -> Token_transfer_from(c.sender, c.from_addr, c.to,
                                                        c.amount)
      [] c.op = "mint"          -> Mintable_mint(c.to, c.amount)
      [] c.op = "burn"          -> Burnable_burn(c.sender, c.amount)

LedgerFrame == UNCHANGED <<paused, guardVars, trip>>

\* A ledger call before the kept one.
Ledger_before(c) ==
    /\ ~probe.taken
    /\ LedgerCall(c)
    /\ Len(log') <= MaxLog
    /\ probe' = probe
    /\ PausableTokenBounded' /\ LedgerFrame

\* The kept ledger call.
Ledger_kept(c) ==
    /\ ~probe.taken
    /\ LedgerCall(c)
    /\ probe' = [taken |-> TRUE, call |-> c, paused |-> paused,
                 pre |-> tokenVars, post |-> tokenVars', last |-> last']
    /\ PausableTokenBounded' /\ LedgerFrame

\* A ledger call that brings the ledger back to where the kept call found it.
Ledger_undo(c) ==
    /\ probe.taken
    /\ tokenVars # probe.pre
    /\ LedgerCall(c)
    /\ tokenVars' = probe.pre
    /\ probe' = probe
    /\ PausableTokenBounded' /\ LedgerFrame

PausableTokenNext ==
    \/ \E c \in LedgerCalls : Ledger_before(c)
    \/ \E c \in LedgerCalls : Ledger_kept(c)
    \/ \E c \in LedgerCalls : Ledger_undo(c)
    \/ \E sender \in Users : Pausable_pause(sender) /\ PausableTokenBounded'
    \/ \E sender \in Users : Pausable_unpause(sender) /\ PausableTokenBounded'

SpecPausableToken == PausableTokenInit /\ [][PausableTokenNext]_vars

----------------------------------------------------------------------------
(* The fungible contract, any operations first and then one round trip:    *)
(* mint(a, n), a.transfer(b, n), and b.burn(n) or spender.burn_from(b, n), *)
(* each of them succeeding.  trip keeps the supply and balances before the *)
(* mint.                                                                   *)

RoundTripInit == TokenInit

\* The round trip may take the values one step further than the operations
\* before it.
RoundTripBounded ==
    /\ total_supply \in (0 - MaxVal - 1)..(MaxVal + 1)
    /\ \A a \in Addr : balances[a] \in (0 - MaxVal - 1)..(MaxVal + 1)

TripFrame == UNCHANGED <<paused, guardVars, probe>>

Trip_mint(a, n) ==
    /\ trip.phase = 0
    /\ Mintable_mint(a, n)
    /\ last'.res = OK
    /\ trip' = [phase |-> 1, a |-> a, b |-> a, n |-> n,
                total_supply |-> total_supply, balances |-> balances]
    /\ RoundTripBounded' /\ TripFrame

Trip_transfer(b) ==
    /\ trip.phase = 1
    /\ Token_transfer(trip.a, b, trip.n)
    /\ last'.res = OK
    /\ trip' = [trip EXCEPT !.phase = 2, !.b = b]
    /\ RoundTripBounded' /\ TripFrame

Trip_burn ==
    /\ trip.phase = 2
    /\ Burnable_burn(trip.b, trip.n)
    /\ last'.res = OK
    /\ trip' = [trip EXCEPT !.phase = 3]
    /\ RoundTripBounded' /\ TripFrame

Trip_burn_from(spender) ==
    /\ trip.phase = 2
    /\ Burnable_burn_from(spender, trip.b, trip.n)
    /\ last'.res = OK
    /\ trip' = [trip EXCEPT !.phase = 3]
    /\ RoundTripBounded' /\ TripFrame

RoundTripNext ==
    \/ trip.phase = 0 /\ TokenNext
    \/ \E a \in Users, n \in Amounts : Trip_mint(a, n)
    \/ \E b \in Users : Trip_transfer(b)
    \/ Trip_burn
    \/ \E spender \in Users : Trip_burn_from(spender)

SpecRoundTrip == RoundTripInit /\ [][RoundTripNext]_vars

----------------------------------------------------------------------------
(* A contract with the ReentrancyGuard mixin *)

GuardInit ==
    /\ InitToken
    /\ InitNFT
    /\ InitHistory
    /\ InitMixins
    /\ owner = Zero
    /\ log = <<>>
    /\ last = GuardCall("deploy", Zero, OK, 0)

\* Its operations are wrapped by nonreentrant_decorator.
DecoratorNext ==
    \/ \E op \in GuardedOps, sender \in NFTUsers : wrapper(op, sender)
    \/ wrapper_exit(OK)
    \/ wrapper_exit(BodyRaised)

SpecDecorator == GuardInit /\ [][DecoratorNext]_vars

\* Its operations call nonreentrant() first and _reset_reentrancy_guard() last.
MethodNext ==
    \/ \E op \in GuardedOps, sender \in NFTUsers : nonreentrant(op, sender)
    \/ reset_reentrancy_guard
    \/ body_raises

SpecMethod == GuardInit /\ [][MethodNext]_vars

\* It has operations of both kinds.
GuardNext ==
    \/ \E op \in GuardedOps, sender \in NFTUsers : wrapper(op, sender)
    \/ wrapper_exit(OK)
    \/ wrapper_exit(BodyRaised)
    \/ \E op \in GuardedOps, sender \in NFTUsers : nonreentrant(op, sender)
    \/ reset_reentrancy_guard
    \/ body_raises

SpecGuard == GuardInit /\ [][GuardNext]_vars

----------------------------------------------------------------------------
(* Claims about the fungible ledger *)

\* C1: in every reachable state of the fungible contract the balances of all
\* addresses add up to total_supply.
C1_SupplyIsSumOfBalances == SumOver(balances, Addr) = total_supply

\* C1 witness: the invariant after a transfer of minted tokens.
C1_Witness ==
    /\ last.op = "transfer" /\ last.res = OK
    /\ total_supply = 1
    /\ \E a \in Users : balances[a] = 1

\* C2: no fungible balance is ever negative.  Token.transfer_from and Token._burn
\* accept a negative amount, which credits the source and debits the recipient.
C2_NoNegativeBalance == \A a \in Addr : balances[a] >= 0

FungibleOps == {"transfer", "transfer_from", "mint", "burn"}

\* C3: a call of transfer, transfer_from, mint or burn that fails leaves balances,
\* total_supply, allowances and the event log as they were.
C3_FailedCallChangesNothing ==
    [][(last'.op \in FungibleOps /\ last'.res # OK)
          => UNCHANGED <<balances, total_supply, allowances, log>>]_vars

\* C4: a burn_from that fails leaves the allowance, the balance and total_supply
\* unchanged; one that succeeds lowers each of them by exactly the amount.
C4_BurnFromAtomic ==
    [][\A sender \in Users, account \in Addr, amount \in Amounts :
          Burnable_burn_from(sender, account, amount) =>
             IF last'.res # OK
             THEN UNCHANGED <<allowances, balances, total_supply>>
             ELSE /\ allowances'[account][sender] = allowances[account][sender] - amount
                  /\ balances'[account] = balances[account] - amount
                  /\ total_supply' = total_supply - amount]_vars

\* C8: after an owner's latest approve(spender, N), N >= 0, the positive amounts the
\* spender has moved or burned out of the owner's balance add up to at most N.
C8_SpendingWithinAllowance ==
    \A p \in DOMAIN granted : granted[p] >= 0 => spent[p] <= granted[p]

----------------------------------------------------------------------------
(* Claims about the non-fungible ledger *)

\* The tokens recorded as owned by an address.
TokensOf(a) == {t \in DOMAIN owners : owners[t] = a}

\* C5: for every address the stored count equals the number of tokens whose
\* recorded owner it is.
C5_CountsMatchOwners ==
    \A a \in NFTAddr : nft_balance_of(a) = Cardinality(TokensOf(a))

\* C5 witness: after a transfer, an address holds two tokens.
C5_Witness ==
    /\ last.op = "transfer_from" /\ last.res = OK
    /\ \E a \in NFTUsers : Cardinality(TokensOf(a)) = 2 /\ nft_balance_of(a) = 2

NotAuthorized == "NFT: transfer caller is not owner nor approved"

\* The caller is the token's owner, its approved delegate, or an operator of its
\* owner.
Authorized(caller, t) ==
    /\ t \in DOMAIN owners
    /\ \/ caller = owners[t]
       \/ t \in DOMAIN token_approvals /\ token_approvals[t] = caller
       \/ operator_approvals[<<owners[t], caller>>]

\* The token of the Transfer event a successful transfer_from has just logged.
Moved(events) == events[Len(events)][4]

\* C6: in every reachable state, a transfer_from by a caller who is not the
\* token's owner, its approved delegate or an operator of its owner can do nothing
\* but fail NotAuthorized with owners, balances, token_approvals and
\* operator_approvals unchanged; so a transfer_from changes a recorded owner only
\* when its caller is authorized at the time of the call.
C6_TransferNeedsAuthorization ==
    \A sender \in NFTUsers, token_id \in TokenIds :
       ~Authorized(sender, token_id) =>
          \A from_addr \in NFTAddr, to \in NFTAddr :
             ~ENABLED (/\ NFT_transfer_from(sender, from_addr, to, token_id)
                       /\ ~(/\ last'.res = NotAuthorized
                            /\ UNCHANGED <<owners, nft_balances, token_approvals,
                                           operator_approvals>>))

\* C6 witness: a delegate approved for token 1 alone has just been refused token 2.
C6_Witness ==
    /\ last.op = "transfer_from" /\ last.res = NotAuthorized
    /\ DOMAIN owners = {1, 2}
    /\ DOMAIN token_approvals = {1}
    /\ token_approvals[1] \in NFTUsers \ {owners[1], owners[2]}

\* C7: right after a successful transfer_from of token t, get_approved(t) is none;
\* and a further transfer_from of t by the caller of that transfer, when it is
\* neither the new owner nor an operator of the new owner, fails NotAuthorized and
\* changes nothing.
C7_ApprovalIsSingleUse ==
    [][/\ (last'.op = "transfer_from" /\ last'.res = OK)
            => Moved(log') \notin DOMAIN token_approvals'
       /\ (last.op = "transfer_from" /\ last.res = OK)
            => LET t == Moved(log)
                   b == last.sender
               IN  \A from_addr \in NFTAddr, to \in NFTAddr :
                      (/\ b # owners[t]
                       /\ ~operator_approvals[<<owners[t], b>>]
                       /\ NFT_transfer_from(b, from_addr, to, t))
                        => /\ last'.res = NotAuthorized
                           /\ UNCHANGED <<nftVars, log>>]_vars

\* C7 witness: delegate B has just moved A's token 1 to C.
C7_Witness ==
    /\ last.op = "transfer_from" /\ last.res = OK /\ last.sender = "B"
    /\ log = << <<"Transfer", Zero, "A", 1>>, <<"Approval", "A", "B", 1>>,
                <<"Transfer", "A", "C", 1>> >>
    /\ 1 \notin DOMAIN token_approvals

----------------------------------------------------------------------------
(* Claims about ownership *)

CallerIsNotOwner == "Ownable: caller is not the owner"
OwnershipOps == {"transfer_ownership", "renounce_ownership"}

\* C9: every step that changes owner is a successful transfer_ownership or
\* renounce_ownership by the address that was owner; a call by any other address
\* fails NotOwner, transfer_ownership(zero) by the owner fails InvalidOwner, and a
\* failed call changes neither owner nor the log.
C9_OnlyOwnerChangesOwner ==
    [][/\ owner' # owner
            => /\ last'.op \in OwnershipOps
               /\ last'.res = OK
               /\ last'.sender = owner
       /\ (last'.op \in OwnershipOps \cup {"only_owner"} /\ last'.sender # owner)
            => last'.res = CallerIsNotOwner
       /\ Ownable_transfer_ownership(owner, Zero)
            => last'.res = "Ownable: new owner is zero address"
       /\ last'.res # OK => UNCHANGED <<owner, log>>]_vars

\* C9 witness: the deployer, having transferred ownership away, is refused.
C9_Witness ==
    /\ last.op = "transfer_ownership" /\ last.res = CallerIsNotOwner
    /\ last.sender = log[1][3]
    /\ Len(log) = 2 /\ log[2][2] = last.sender
    /\ owner # last.sender

\* C10: once ownership is renounced the owner stays the zero address, and every
\* later only_owner, transfer_ownership or renounce_ownership call fails.
C10_RenounceIsIrreversible ==
    [][owner = Zero => (owner' = Zero /\ last'.res # OK)]_vars

\* C10 witness: a transfer_ownership attempted after the renounce has failed.
C10_Witness ==
    /\ owner = Zero
    /\ log[Len(log)] = <<"OwnershipTransferred", log[1][3], Zero>>
    /\ last.op = "transfer_ownership" /\ last.res = CallerIsNotOwner
    /\ last.sender = log[1][3]

----------------------------------------------------------------------------
(* Claims about the reentrancy guard *)

\* C11: for operations wrapped by nonreentrant_decorator, a call made while a body
\* is executing fails with the reentrant-call error; once the outer call has
\* returned or raised the status is NOT_ENTERED; and a top-level call is admitted.
C11_DecoratorReleasesGuard ==
    [][/\ \A op \in GuardedOps, sender \in NFTUsers :
             (wrapper(op, sender) /\ stack # <<>>) => last'.res = ReentrantCall
       /\ stack' = <<>> => status' = NOT_ENTERED
       /\ \A op \in GuardedOps, sender \in NFTUsers :
             (wrapper(op, sender) /\ stack = <<>>) => last'.res = Entered]_vars

\* C11 witness: the outer call has raised after its nested call was rejected.
C11_Witness ==
    /\ stack = <<>>
    /\ last.res = BodyRaised /\ last.nested >= 1
    /\ status = NOT_ENTERED

\* C12: for operations guarded by nonreentrant() at the start and
\* _reset_reentrancy_guard() at the end, the status is NOT_ENTERED whenever no body
\* is executing, and no top-level call fails with the reentrant-call error.
C12_MethodGuardNeverLatched ==
    [][/\ stack' = <<>> => status' = NOT_ENTERED
       /\ \A op \in GuardedOps, sender \in NFTUsers :
             (nonreentrant(op, sender) /\ stack = <<>>)
                => last'.res # ReentrantCall]_vars

\* C13: at most one guarded body is executing, the status is ENTERED while it is,
\* and a call made meanwhile is rejected without starting a body or changing the
\* status.
C13_OneBodyInFlight ==
    [][/\ Len(stack') <= 1
       /\ stack' # <<>> => status' = ENTERED
       /\ \A op \in GuardedOps, sender \in NFTUsers :
             ((wrapper(op, sender) \/ nonreentrant(op, sender)) /\ stack # <<>>)
                => /\ last'.res = ReentrantCall
                   /\ status' = ENTERED
                   /\ Len(stack') = Len(stack)]_vars

\* C13 witness: the second nested call of a body has been rejected.
C13_Witness ==
    /\ stack # <<>> /\ Top.nested = 2
    /\ last.res = ReentrantCall /\ last.nested = 2
    /\ status = ENTERED

----------------------------------------------------------------------------
(* Claims about pausing *)

\* The Paused and Unpaused events of a log, in order.
IsPauseEvent(e) == e[1] \in {"Paused", "Unpaused"}
PauseEvents(events) == SelectSeq(events, IsPauseEvent)

\* They alternate, starting with Paused.
Alternates(events) ==
    \A i \in 1..Len(events) :
       events[i][1] = IF i % 2 = 1 THEN "Paused" ELSE "Unpaused"

\* C14: pause() succeeds exactly when the contract is not paused and unpause()
\* exactly when it is; the failing calls raise the paused / not-paused error and
\* leave paused and the log unchanged; the Paused and Unpaused events of the log
\* alternate, starting with Paused.
C14_PauseStateMachine ==
    [][/\ \A sender \in NFTUsers :
             Pausable_pause(sender) =>
                IF paused
                THEN last'.res = ContractPaused /\ UNCHANGED <<paused, log>>
                ELSE /\ last'.res = OK /\ paused' = TRUE
                     /\ log' = Append(log, <<"Paused", sender>>)
       /\ \A sender \in NFTUsers :
             Pausable_unpause(sender) =>
                IF ~paused
                THEN last'.res = ContractNotPaused /\ UNCHANGED <<paused, log>>
                ELSE /\ last'.res = OK /\ paused' = FALSE
                     /\ log' = Append(log, <<"Unpaused", sender>>)
       /\ Alternates(PauseEvents(log'))]_vars

\* C14 witness: paused, unpaused and paused again, and then a pause() refused.
C14_Witness ==
    /\ Len(PauseEvents(log)) = 3
    /\ paused
    /\ last.op = "pause" /\ last.res = ContractPaused

\* C15: in the contract that composes Pausable with Ownable, a pause() or
\* unpause() by a caller who is not the owner fails and leaves paused unchanged.
C15_OnlyOwnerPauses ==
    [][\A sender \in NFTUsers :
          (sender # owner /\ (Pausable_pause(sender) \/ Pausable_unpause(sender)))
             => (last'.res # OK /\ paused' = paused)]_vars

----------------------------------------------------------------------------
(* Claims about minting under Ownable *)

\* C16: in the contract that composes Mintable with Ownable, a mint by a caller
\* who is not the owner fails with the not-owner error and leaves total_supply
\* and balances unchanged.
C16_OnlyOwnerMints ==
    [][\A sender \in Users, to \in Addr, amount \in Amounts :
          (sender # owner /\ Mintable_mint_by(sender, to, amount))
             => /\ last'.res = CallerIsNotOwner
                /\ UNCHANGED <<total_supply, balances>>]_vars

----------------------------------------------------------------------------
(* Claims about the zero address *)

\* No token's recorded owner is the zero address.
ZeroOwnsNoToken == \A t \in DOMAIN owners : owners[t] # Zero

\* C17: the zero address holds nothing: its fungible balance is 0 and it is the
\* recorded owner of no token.
C17_ZeroHoldsNothing ==
    /\ balances[Zero] = 0
    /\ ZeroOwnsNoToken

\* C18: the zero address is approved for nothing: it is the approved delegate of no
\* token and an approved operator of no owner.
C18_ZeroNeverApproved ==
    /\ \A t \in DOMAIN token_approvals : token_approvals[t] # Zero
    /\ \A h \in NFTUsers : ~operator_approvals[<<h, Zero>>]

----------------------------------------------------------------------------
(* Algebraic claims about the fungible ledger *)

\* C19: after mint(a, n), a.transfer(b, n) and the burn of n from b, total_supply
\* and the balances of a and b are what they were before the mint.
C19_SupplyRoundTrip ==
    trip.phase = 3 =>
       /\ total_supply = trip.total_supply
       /\ balances[trip.a] = trip.balances[trip.a]
       /\ balances[trip.b] = trip.balances[trip.b]

\* C19 witness: a round trip between two holders, closed by an approved spender's
\* burn_from, starting from a supply that was not zero.
C19_Witness ==
    /\ trip.phase = 3
    /\ trip.a # trip.b
    /\ last.op = "burn_from"
    /\ trip.total_supply # 0

\* The allowance a table of allowances records, 0 where it records none.
AllowanceIn(table, holder, spender) ==
    IF holder \in DOMAIN table THEN table[holder][spender] ELSE 0

\* C20: a successful approve(spender, N) by an owner sets allowance(owner, spender)
\* to N whatever it was before, also when it was N already, and changes no
\* balance, no other allowance and not total_supply.
C20_ApproveOverwrites ==
    [][(last'.op = "approve" /\ last'.res = OK) =>
          LET e == log'[Len(log')]
              holder == e[2]
              spender == e[3]
              N == e[4]
          IN  /\ holder = last'.sender
              /\ AllowanceIn(allowances', holder, spender) = N
              /\ UNCHANGED <<balances, total_supply>>
              /\ \A h \in Users, sp \in Users :
                    <<h, sp>> # <<holder, spender>>
                       => AllowanceIn(allowances', h, sp)
                             = AllowanceIn(allowances, h, sp)]_vars

\* C20 witness: the same approve(spender, 1) made twice in a row.
C20_Witness ==
    /\ last.op = "approve" /\ last.res = OK
    /\ Len(log) = 2 /\ log[1] = log[2] /\ log[2][4] = 1
    /\ allowance(log[2][2], log[2][3]) = 1

----------------------------------------------------------------------------
(* Claims about the supply and the Transfer log *)

\* C25: a step that raises total_supply, or the sum of all balances, is a
\* successful mint; a burn or burn_from raises neither total_supply nor any balance.
C25_SupplyGrowsOnlyByMint ==
    [][/\ (\/ total_supply' > total_supply
           \/ SumOver(balances', Addr) > SumOver(balances, Addr))
            => (last'.op = "mint" /\ last'.res = OK)
       /\ last'.op \in {"burn", "burn_from"}
            => /\ total_supply' <= total_supply
               /\ \A a \in Addr : balances'[a] <= balances[a]]_vars

RECURSIVE Received(_, _)
\* The amounts of the Transfer events of a log that name an address as recipient.
Received(events, a) ==
    IF events = <<>> THEN 0
    ELSE (IF Head(events)[1] = "Transfer" /\ Head(events)[3] = a
          THEN Head(events)[4] ELSE 0) + Received(Tail(events), a)

RECURSIVE Sent(_, _)
\* The amounts of the Transfer events of a log that name an address as sender.
Sent(events, a) ==
    IF events = <<>> THEN 0
    ELSE (IF Head(events)[1] = "Transfer" /\ Head(events)[2] = a
          THEN Head(events)[4] ELSE 0) + Sent(Tail(events), a)

\* C26: every account's balance is what the logged Transfer events sent to it
\* minus what they sent from it, and total_supply is what they sent from the zero
\* address minus what they sent to it.
C26_LogIsFaithful ==
    /\ \A a \in Users : balances[a] = Received(log, a) - Sent(log, a)
    /\ total_supply = Sent(log, Zero) - Received(log, Zero)

----------------------------------------------------------------------------
(* Claims about the order of the NFT checks, approvals and re-minting *)

InvalidRecipient == "NFT: transfer to zero address"

OwnershipMismatch == "NFT: transfer from incorrect owner"

\* What the documented order of checks gives for a transfer_from call: the
\* authorization test first, then the recipient, then the recorded owner.
ExpectedTransfer(caller, from_addr, to, t) ==
    IF ~Authorized(caller, t) THEN NotAuthorized
    ELSE IF to = Zero THEN InvalidRecipient
    ELSE IF owners[t] # from_addr THEN OwnershipMismatch
    ELSE OK

\* C21: in every reachable state every transfer_from call ends as the order
\* authorization, recipient, ownership says: NotAuthorized for an unauthorized
\* caller (whatever to and from are, and for a token without owner), else
\* InvalidRecipient for the zero recipient, else OwnershipMismatch for a from that
\* is not the recorded owner; and a failed call leaves owners, balances,
\* token_approvals and the event log unchanged.
C21_ChecksInOrder ==
    \A sender \in NFTUsers, token_id \in TokenIds,
       from_addr \in NFTAddr, to \in NFTAddr :
       LET expected == ExpectedTransfer(sender, from_addr, to, token_id)
       IN  ~ENABLED (/\ NFT_transfer_from(sender, from_addr, to, token_id)
                     /\ ~(/\ last'.res = expected
                          /\ expected # OK
                               => UNCHANGED <<owners, nft_balances,
                                              token_approvals, log>>))

\* C21 witness: a delegate approved for a token has just been refused the zero
\* recipient.
C21_Witness ==
    /\ last.op = "transfer_from" /\ last.res = InvalidRecipient
    /\ DOMAIN token_approvals # {}
    /\ log # <<>> /\ log[Len(log)][1] = "Approval"

ApprovalToOwner == "NFT: approval to current owner"

ApproveNotAuthorized == "NFT: approve caller is not owner nor approved for all"

\* The per-token approval slot of a token in an approvals map; None when empty.
SlotIn(approvals, t) == IF t \in DOMAIN approvals THEN approvals[t] ELSE None

\* The token named by the last event of a log.
LastToken(events) == events[Len(events)][4]

\* Every approve call on token t with these arguments can only fail with res,
\* leaving the approval slots as they are.
ApproveOnlyFails(sender, to, t, res) ==
    ~ENABLED (/\ NFT_approve(sender, to, t)
              /\ ~(last'.res = res /\ UNCHANGED token_approvals))

\* C22, the calls that fail: on an existing token, approve(to, t) with to the
\* current owner fails ApprovalToOwner for every caller; and approve by a caller
\* who is neither the owner nor an operator of the owner (the per-token delegate
\* included) fails NotAuthorized; neither changes the slot.
C22_ApproveRefused ==
    \A t \in DOMAIN owners : \A sender \in NFTUsers, to \in NFTAddr :
       /\ to = owners[t] => ApproveOnlyFails(sender, to, t, ApprovalToOwner)
       /\ (/\ to # owners[t]
           /\ sender # owners[t]
           /\ ~operator_approvals[<<owners[t], sender>>])
            => ApproveOnlyFails(sender, to, t, ApproveNotAuthorized)

\* C22, the steps that change a slot: the slot of an existing token changes only
\* in a successful approve of that token called by its owner or by an operator of
\* its owner, or by being emptied in a successful transfer_from, burn or burn_from
\* of that token.
C22_SlotStep ==
    \A t \in DOMAIN owners :
       SlotIn(token_approvals', t) # SlotIn(token_approvals, t)
         => /\ last'.res = OK
            /\ Len(log') = Len(log) + 1
            /\ LastToken(log') = t
            /\ \/ /\ last'.op = "approve"
                  /\ \/ last'.sender = owners[t]
                     \/ operator_approvals[<<owners[t], last'.sender>>]
               \/ /\ last'.op \in {"transfer_from", "burn", "burn_from"}
                  /\ SlotIn(token_approvals', t) = None

\* C22: the per-token approval slot of an existing NFT changes only by an approve
\* of its owner or of an operator of its owner, or by being cleared in
\* transfer_from or burn; approve by the mere delegate fails NotAuthorized and
\* approve to the current owner fails ApprovalToOwner, the slot unchanged.
C22_SlotChangesOnlyByOwner == []C22_ApproveRefused /\ [][C22_SlotStep]_vars

\* C22 witness: the delegate of token 1, no operator of its owner, has just been
\* refused an approve, and the slot still names that delegate.
C22_Witness ==
    /\ last.op = "approve" /\ last.res = ApproveNotAuthorized
    /\ 1 \in DOMAIN token_approvals
    /\ token_approvals[1] # owners[1]
    /\ ~operator_approvals[<<owners[1], token_approvals[1]>>]

AlreadyMinted == "NFT: token already minted"

\* C23, in every state: no approval entry exists for an id without an owner; a
\* mint of an id that has an owner, to any holder, can only fail AlreadyMinted
\* with nothing changed; and a mint of an id that has none (never minted, or
\* burned) can only succeed, leaving to as the owner and no approved delegate.
C23_MintOutcome ==
    /\ DOMAIN token_approvals \subseteq DOMAIN owners
    /\ \A id \in TokenIds, to \in NFTUsers :
          ~ENABLED (/\ Mintable_mint_nft(to, id)
                    /\ ~(IF id \in DOMAIN owners
                         THEN last'.res = AlreadyMinted /\ UNCHANGED <<nftVars, log>>
                         ELSE /\ last'.res = OK
                              /\ owners' = Put(owners, id, to)
                              /\ SlotIn(token_approvals', id) = None))

\* C23, in every step: a successful mint logs the id and the recipient, the id had
\* no owner before, and right after it owner_of(id) is the recipient and
\* get_approved(id) is none.
C23_MintStep ==
    (last'.op = "mint" /\ last'.res = OK)
      => LET e == log'[Len(log')]
         IN  /\ Len(log') = Len(log) + 1
             /\ e[1] = "Transfer" /\ e[2] = Zero
             /\ e[4] \notin DOMAIN owners
             /\ e[4] \in DOMAIN owners' /\ owners'[e[4]] = e[3]
             /\ SlotIn(token_approvals', e[4]) = None

\* C23: _mint(to, id) fails AlreadyMinted while id has an owner and succeeds once id
\* has been burned; right after every successful mint, the re-mint of an id that was
\* approved to a delegate before its burn included, owner_of(id) is to and
\* get_approved(id) is none; and no id without an owner ever has an approval entry.
C23_RemintStartsClean == []C23_MintOutcome /\ [][C23_MintStep]_vars

\* C23 witness: token 1, approved to a delegate and then burned, has just been
\* minted again.
C23_Witness ==
    /\ last.op = "mint" /\ last.res = OK
    /\ Len(log) = 4
    /\ log[2][1] = "Approval" /\ log[2][4] = 1
    /\ log[3][1] = "Transfer" /\ log[3][3] = Zero /\ log[3][4] = 1
    /\ log[4][2] = Zero /\ log[4][4] = 1
    /\ owners[1] = log[4][3]
    /\ 1 \notin DOMAIN token_approvals

----------------------------------------------------------------------------
(* Claims about pausing and the ledger *)

\* The recorded call can be repeated here with the pause flag the other way round:
\* the ledger is what it was when the call was recorded, the flag is not.
SecondRun ==
    /\ probe.taken
    /\ tokenVars = probe.pre
    /\ paused # probe.paused

\* C24: whenever the ledger is back in the state a recorded transfer,
\* transfer_from, approve or mint ran in and only the pause flag differs, the same
\* call can only end as the recorded one did, with the same result and the same
\* resulting balances, allowances and total_supply; and pause() and unpause()
\* change nothing of the contract but paused and the event log.
C24_PauseDoesNotIntercept ==
    /\ SecondRun
         => /\ ENABLED LedgerCall(probe.call)
            /\ ~ENABLED (/\ LedgerCall(probe.call)
                         /\ ~(last' = probe.last /\ tokenVars' = probe.post))
    /\ \A sender \in Users :
          /\ ~ENABLED (/\ Pausable_pause(sender)
                       /\ ~UNCHANGED <<tokenVars, nftVars, owner, guardVars>>)
          /\ ~ENABLED (/\ Pausable_unpause(sender)
                       /\ ~UNCHANGED <<tokenVars, nftVars, owner, guardVars>>)

\* C24 witness: a transfer that succeeded while the contract was paused can be
\* repeated on the same ledger with the contract unpaused.
C24_Witness ==
    /\ SecondRun
    /\ probe.paused
    /\ probe.call.op = "transfer"
    /\ probe.last.res = OK

====
